---- MODULE Spec2Model ----
(***************************************************************************)
(* bibgulp: the record-cleaning pipeline of bibgulp.py (clean_record and   *)
(* the functions it calls), as a state machine over one parsed record.     *)
(*                                                                         *)
(* A text is a sequence of characters.  A character is a one-character     *)
(* string; a character outside ASCII is named by its code point            *)
(* ("U+00E9" is one character).  The whitespace characters that occur in   *)
(* the inputs are the space and the newline.                               *)
(***************************************************************************)
EXTENDS Naturals, Sequences, FiniteSets

VARIABLES
    pc,        \* the statement of clean_record that runs next
    input,     \* the record as the parser handed it to clean_record
    record,    \* the record: a dict, as the sequence of its items in insertion order
    output,    \* the list `output` of clean_record: the lines of the block
    emitted,   \* the keys print_field was called with, in call order
    result     \* the value clean_record returns

vars == <<pc, input, record, output, emitted, result>>

------------------------------------------------------------------------------
(* Characters *)

UpperAZ == <<"A","B","C","D","E","F","G","H","I","J","K","L","M",
             "N","O","P","Q","R","S","T","U","V","W","X","Y","Z">>
LowerAZ == <<"a","b","c","d","e","f","g","h","i","j","k","l","m",
             "n","o","p","q","r","s","t","u","v","w","x","y","z">>
Range(s) == {s[i] : i \in 1..Len(s)}
AsciiUpper == Range(UpperAZ)
AsciiLower == Range(LowerAZ)
DigitChars == {"0","1","2","3","4","5","6","7","8","9"}

\* str.isspace of one character
IsSpace(c) == c \in {" ", "\n"}
\* \d of the re module
IsDigit(c) == c \in DigitChars
\* [a-zA-Z] of the re module
IsAsciiLetter(c) == c \in AsciiUpper \cup AsciiLower
\* the cased characters: U+00C9 is E with acute, U+00E9 is e with acute
IsUpperChar(c) == c \in AsciiUpper \cup {"U+00C9"}
IsLowerChar(c) == c \in AsciiLower \cup {"U+00E9"}
\* str.lower of one character
LowerChar(c) ==
    IF c \in AsciiUpper THEN LowerAZ[CHOOSE i \in 1..26 : UpperAZ[i] = c]
    ELSE IF c = "U+00C9" THEN "U+00E9"
    ELSE c

------------------------------------------------------------------------------
(* Texts: the str methods the program uses *)

RECURSIVE Concat(_)
\* "".join(parts)
Concat(parts) == IF parts = <<>> THEN <<>> ELSE Head(parts) \o Concat(Tail(parts))

RECURSIVE Join(_, _)
\* sep.join(parts)
Join(parts, sep) ==
    IF parts = <<>> THEN <<>>
    ELSE IF Len(parts) = 1 THEN parts[1]
    ELSE parts[1] \o sep \o Join(Tail(parts), sep)

\* s[i:]  (i counted from 0 as in Python)
From(s, i) == SubSeq(s, i + 1, Len(s))
\* s[:i]
UpTo(s, i) == SubSeq(s, 1, IF i < Len(s) THEN i ELSE Len(s))

\* s.startswith(p) at offset i: s[i:i+len(p)] == p
MatchAt(s, i, p) ==
    /\ i + Len(p) <= Len(s)
    /\ \A j \in 1..Len(p) : s[i + j] = p[j]

\* sub in s
Contains(s, sub) == \E i \in 0..Len(s) : MatchAt(s, i, sub)

\* s.find(sub, i)
Find(s, sub, i) ==
    IF \E j \in i..Len(s) : MatchAt(s, j, sub)
    THEN CHOOSE j \in i..Len(s) :
            MatchAt(s, j, sub) /\ \A h \in i..(j - 1) : ~MatchAt(s, h, sub)
    ELSE Len(s) + 1

RECURSIVE Replace(_, _, _)
\* s.replace(old, new), old not empty: the occurrences left to right, not overlapping
Replace(s, old, new) ==
    IF ~Contains(s, old) THEN s
    ELSE LET j == Find(s, old, 0)
         IN  UpTo(s, j) \o new \o Replace(From(s, j + Len(old)), old, new)

RECURSIVE SplitOn(_, _)
\* s.split(sep), sep not empty: the empty pieces are kept
SplitOn(s, sep) ==
    IF ~Contains(s, sep) THEN <<s>>
    ELSE LET j == Find(s, sep, 0)
         IN  <<UpTo(s, j)>> \o SplitOn(From(s, j + Len(sep)), sep)

RECURSIVE LStrip(_)
LStrip(s) == IF s # <<>> /\ IsSpace(Head(s)) THEN LStrip(Tail(s)) ELSE s
RECURSIVE RStrip(_)
RStrip(s) == IF s # <<>> /\ IsSpace(s[Len(s)]) THEN RStrip(SubSeq(s, 1, Len(s) - 1)) ELSE s
\* s.strip()
Strip(s) == RStrip(LStrip(s))

RECURSIVE SplitWS(_)
\* s.split(): the runs of non-whitespace characters
SplitWS(s) ==
    LET t == LStrip(s)
    IN  IF t = <<>> THEN <<>>
        ELSE LET ends == {i \in 1..Len(t) : IsSpace(t[i])}
                 n == IF ends = {} THEN Len(t)
                      ELSE (CHOOSE i \in ends : \A j \in ends : i <= j) - 1
             IN  <<SubSeq(t, 1, n)>> \o SplitWS(From(t, n))

\* s.lower()
Lower(s) == [i \in 1..Len(s) |-> LowerChar(s[i])]

\* s.islower(): a cased character, and no uppercase one
IsLowerStr(s) ==
    /\ \E i \in 1..Len(s) : IsLowerChar(s[i])
    /\ \A i \in 1..Len(s) : ~IsUpperChar(s[i])

\* n copies of the character c
Rep(c, n) == [i \in 1..n |-> c]

------------------------------------------------------------------------------
(* The record: a dict, whose items keep their insertion order *)

\* key in r
Has(r, k) == \E i \in 1..Len(r) : r[i].k = k
Idx(r, k) == CHOOSE i \in 1..Len(r) : r[i].k = k
\* r[key]
Get(r, k) == r[Idx(r, k)].v
\* r[key] = value: in place when the key is there, at the end when it is new
Set(r, k, v) ==
    IF Has(r, k) THEN [r EXCEPT ![Idx(r, k)] = [k |-> k, v |-> v]]
    ELSE Append(r, [k |-> k, v |-> v])
\* del r[key]
Del(r, k) == SelectSeq(r, LAMBDA e : e.k # k)
\* list(r): the keys in iteration order
Keys(r) == [i \in 1..Len(r) |-> r[i].k]

------------------------------------------------------------------------------
(* The module's tables and the field names the program uses *)

K_author == <<"a","u","t","h","o","r">>
K_title == <<"t","i","t","l","e">>
K_year == <<"y","e","a","r">>
K_journal == <<"j","o","u","r","n","a","l">>
K_volume == <<"v","o","l","u","m","e">>
K_number == <<"n","u","m","b","e","r">>
K_pages == <<"p","a","g","e","s">>
K_editor == <<"e","d","i","t","o","r">>
K_booktitle == <<"b","o","o","k","t","i","t","l","e">>
K_series == <<"s","e","r","i","e","s">>
K_keywords == <<"k","e","y","w","o","r","d","s">>
K_ENTRYTYPE == <<"E","N","T","R","Y","T","Y","P","E">>
K_ID == <<"I","D">>
K_abstract == <<"a","b","s","t","r","a","c","t">>
K_link == <<"l","i","n","k">>
K_url == <<"u","r","l">>
K_keyword == <<"k","e","y","w","o","r","d">>
K_note == <<"n","o","t","e">>
K_doi == <<"d","o","i">>

stop_words ==
    {<<"a">>, <<"a","n">>, <<"t","h","e">>, <<"o","n">>, <<"i","s">>, <<"i","t">>,
     <<"a","t">>, <<"o","f">>, <<"i","n">>, <<"a","s">>, <<"t","o">>, <<"a","r","e">>,
     <<"t","h","e","r","e">>, <<"e","l">>, <<"l","a">>, <<"h","a","s">>}

field_order ==
    <<K_author, K_title, K_year, K_journal, K_volume, K_number, K_pages,
      K_editor, K_booktitle, K_series, K_keywords>>

known_fields == Range(field_order) \cup {K_ENTRYTYPE, K_ID, K_abstract}

capitalizers ==
    {<<"S","c","i","e","n","c","e">>,
     <<"G","e","o","l","o","g","y">>,
     <<"S","u","r","v","e","y","s"," ","i","n"," ","G","e","o","p","h","y","s","i","c","s">>,
     <<"R","a","d","i","o","c","a","r","b","o","n">>}

------------------------------------------------------------------------------
(* get_first_word *)

\* what get_first_word returns: None, or a text
PyNone == [none |-> TRUE, text |-> <<>>]
PyText(t) == [none |-> FALSE, text |-> t]
\* "%s" % v
PyStr(v) == IF v.none THEN <<"N","o","n","e">> ELSE v.text

RECURSIVE FirstWordLoop(_)
\* the for loop of get_first_word and the return after it
FirstWordLoop(words) ==
    IF words = <<>> THEN <<"x","x","x">>
    ELSE IF Head(words) \notin stop_words /\ ~IsDigit(Head(words)[1])
         THEN Head(words)
         ELSE FirstWordLoop(Tail(words))

\* get_first_word without its test against stop_words
get_first_word_any(r) ==
    IF ~Has(r, K_title) THEN PyNone
    ELSE LET split == SplitWS(Get(r, K_title))
             words == SelectSeq([i \in 1..Len(split) |-> Lower(split[i])],
                                LAMBDA w : ~IsDigit(w[1]))
         IN  PyText(IF words = <<>> THEN <<"x","x","x">> ELSE words[1])

get_first_word(r) ==
    IF ~Has(r, K_title) THEN PyNone
    ELSE LET title == Get(r, K_title)
             split == SplitWS(title)
             words == [i \in 1..Len(split) |-> Lower(split[i])]
         IN  PyText(FirstWordLoop(words))

------------------------------------------------------------------------------
(* fix_pages *)

\* s[i:j] matches \d+
DigitRun(s, i, j) == i < j /\ \A h \in (i + 1)..j : IsDigit(s[h])
\* s[i:j] matches \D+
NonDigitRun(s, i, j) == i < j /\ \A h \in (i + 1)..j : ~IsDigit(s[h])

\* every way (\d+)\D+(\d+) matches in s: <<start, end of group 1, start of group 2, end>>
PagesMatches(s) ==
    {m \in (0..Len(s)) \X (0..Len(s)) \X (0..Len(s)) \X (0..Len(s)) :
        /\ DigitRun(s, m[1], m[2])
        /\ NonDigitRun(s, m[2], m[3])
        /\ DigitRun(s, m[3], m[4])}

\* the search with a second group that stops at its first digit: (\d+)\D+(\d)
PagesSearch_one_digit(s) ==
    LET M0 == PagesMatches(s)
        a  == CHOOSE x \in {m[1] : m \in M0} : \A y \in {m[1] : m \in M0} : x <= y
        M1 == {m \in M0 : m[1] = a}
        b  == CHOOSE x \in {m[2] : m \in M1} : \A y \in {m[2] : m \in M1} : x >= y
        M2 == {m \in M1 : m[2] = b}
        c  == CHOOSE x \in {m[3] : m \in M2} : \A y \in {m[3] : m \in M2} : x >= y
    IN  <<a, b, c, c + 1>>

\* re.search: the leftmost match, each + taking as much as a match allows, in turn
PagesSearch(s) ==
    LET M0 == PagesMatches(s)
        a  == CHOOSE x \in {m[1] : m \in M0} : \A y \in {m[1] : m \in M0} : x <= y
        M1 == {m \in M0 : m[1] = a}
        b  == CHOOSE x \in {m[2] : m \in M1} : \A y \in {m[2] : m \in M1} : x >= y
        M2 == {m \in M1 : m[2] = b}
        c  == CHOOSE x \in {m[3] : m \in M2} : \A y \in {m[3] : m \in M2} : x >= y
        M3 == {m \in M2 : m[3] = c}
        d  == CHOOSE x \in {m[4] : m \in M3} : \A y \in {m[4] : m \in M3} : x >= y
    IN  <<a, b, c, d>>

fix_pages(r) ==
    IF ~Has(r, K_pages) THEN r
    ELSE LET p0 == Get(r, K_pages)
         IN  IF PagesMatches(p0) = {} THEN r
             ELSE LET m == PagesSearch(p0)
                  IN  Set(r, K_pages,
                          SubSeq(p0, m[1] + 1, m[2]) \o <<"-","-">>
                              \o SubSeq(p0, m[3] + 1, m[4]))

------------------------------------------------------------------------------
(* fix_title *)

\* the body of the loop of fix_title: word1 from word0
TitleWord(word0) ==
    IF Len(word0) > 1 /\ IsUpperChar(word0[1]) /\ IsLowerStr(Tail(word0))
    THEN <<"{", word0[1], "}">> \o Tail(word0)
    ELSE IF IsLowerStr(word0) \/ ~(word0 # <<>> /\ IsAsciiLetter(word0[1]))
         THEN word0
         ELSE <<"{">> \o word0 \o <<"}">>

fix_title(r) ==
    IF ~Has(r, K_title) THEN r
    ELSE IF Has(r, K_journal) /\ Get(r, K_journal) \in capitalizers THEN r
    ELSE LET words == SplitOn(Get(r, K_title), <<" ">>)
             fixed == [i \in 1..Len(words) |->
                          IF i = 1 THEN words[1] ELSE TitleWord(words[i])]
         IN  Set(r, K_title, Join(fixed, <<" ">>))

------------------------------------------------------------------------------
(* strip_accents, and the two library calls on the author field *)

\* unicodedata.normalize('NFD', c): U+0301 is the combining acute accent
NFD(c) ==
    IF c = "U+00E9" THEN <<"e", "U+0301">>
    ELSE IF c = "U+00C9" THEN <<"E", "U+0301">>
    ELSE <<c>>
\* unicodedata.category(c) == 'Mn'
IsMn(c) == c = "U+0301"

strip_accents(s) ==
    SelectSeq(Concat([i \in 1..Len(s) |-> NFD(s[i])]), LAMBDA c : ~IsMn(c))

\* string_to_latex: a character outside ASCII becomes its LaTeX escape
string_to_latex(s) ==
    Concat([i \in 1..Len(s) |->
               IF s[i] = "U+00E9" THEN <<"{","\\","'","e","}">>
               ELSE IF s[i] = "U+00C9" THEN <<"{","\\","'","E","}">>
               ELSE <<s[i]>>])

\* getnames of one name, for names without a particle (van, de, ...) or a suffix (jr)
TidyName(namestring) ==
    IF Contains(namestring, <<",">>)
    THEN LET namelist == SplitOn(namestring, <<",">>)
         IN  Strip(namelist[1]) \o <<",", " ">> \o Join(SplitWS(namelist[2]), <<" ">>)
    ELSE LET namelist == SplitWS(namestring)
             firsts == [i \in 1..(Len(namelist) - 1) |->
                           Strip(Replace(namelist[i], <<".">>, <<".", " ">>))]
         IN  namelist[Len(namelist)] \o <<",", " ">> \o Join(firsts, <<" ">>)

\* czn.author(record): the author text becomes the list of "Last, First" names
czn_author(r) ==
    IF ~Has(r, K_author) THEN r
    ELSE IF Get(r, K_author) = <<>> THEN Del(r, K_author)
    ELSE LET parts == SplitOn(Replace(Get(r, K_author), <<"\n">>, <<" ">>),
                              <<" ","a","n","d"," ">>)
             names == SelectSeq([i \in 1..Len(parts) |-> Strip(parts[i])],
                                LAMBDA n : Len(n) >= 1)
         IN  Set(r, K_author, [i \in 1..Len(names) |-> TidyName(names[i])])

------------------------------------------------------------------------------
(* print_field: the line of a field, wrapped by textwrap.TextWrapper with its *)
(* defaults (break_long_words, break_on_hyphens, drop_whitespace,             *)
(* replace_whitespace)                                                        *)

\* width=78 of the TextWrapper
width == 78
\* initial_indent and subsequent_indent of the TextWrapper
initial_indent == <<" ", " ">>
subsequent_indent == <<" ", " ", " ", " ">>

\* _munge_whitespace: every whitespace character becomes a space
Munge(text) == [i \in 1..Len(text) |-> IF IsSpace(text[i]) THEN " " ELSE text[i]]

\* the character classes of wordsep_re: letter, \w, word_punct
IsLetterW(c) == c \in AsciiUpper \cup AsciiLower \cup {"_", "U+00E9", "U+00C9"}
IsWordChar(c) == IsLetterW(c) \/ IsDigit(c)
IsWordPunct(c) == IsWordChar(c) \/ c \in {"!", "\"", "'", "&", ".", ",", "?"}

\* t[i] (from 1), or no character outside the text
At(t, i) == IF i \in 1..Len(t) THEN t[i] ELSE ""

\* t[i..j] is a run of two or more hyphens between a word_punct character and a \w one
EmDash(t, i, j) ==
    /\ i < j
    /\ \A h \in i..j : At(t, h) = "-"
    /\ IsWordPunct(At(t, i - 1))
    /\ IsWordChar(At(t, j + 1))

\* wordsep_re splits between t[i] and t[i+1]
ChunkEnd(t, i) ==
    \/ IsSpace(t[i]) # IsSpace(t[i + 1])
    \/ /\ t[i] = "-"
       /\ \/ IsLetterW(At(t, i - 1)) /\ IsLetterW(At(t, i - 2))
          \/ IsLetterW(At(t, i - 1)) /\ At(t, i - 2) = "-" /\ IsLetterW(At(t, i - 3))
       /\ IsLetterW(At(t, i + 1))
       /\ \/ IsLetterW(At(t, i + 2))
          \/ At(t, i + 2) = "-" /\ IsLetterW(At(t, i + 3))
    \/ \E j \in (i + 2)..Len(t) : EmDash(t, i + 1, j)
    \/ \E h \in 1..(i - 1) : EmDash(t, h, i)

RECURSIVE Chunks(_)
\* _split: the chunks of a text, none of them empty
Chunks(t) ==
    IF t = <<>> THEN <<>>
    ELSE LET ends == {i \in 1..(Len(t) - 1) : ChunkEnd(t, i)} \cup {Len(t)}
             n == CHOOSE i \in ends : \A j \in ends : i <= j
         IN  <<SubSeq(t, 1, n)>> \o Chunks(From(t, n))

\* chunk.strip() == ''
IsBlank(chunk) == \A i \in 1..Len(chunk) : IsSpace(chunk[i])

\* the inner while loop of _wrap_chunks: how many chunks go on a line of width w
Fit(chunks, w) ==
    LET fits == {n \in 0..Len(chunks) : Len(Concat(SubSeq(chunks, 1, n))) <= w}
    IN  CHOOSE n \in fits : \A m \in fits : m <= n

\* _handle_long_word: where the chunk is cut when space_left columns are left
LongWordEnd(chunk, space_left) ==
    LET hyphens == {h \in 0..(space_left - 1) : At(chunk, h + 1) = "-"}
        hyphen == IF hyphens = {} THEN 0
                  ELSE CHOOSE h \in hyphens : \A g \in hyphens : g <= h
    IN  IF /\ Len(chunk) > space_left
           /\ hyphen > 0
           /\ \E i \in 1..hyphen : chunk[i] # "-"
        THEN hyphen + 1
        ELSE space_left

RECURSIVE WrapChunks(_, _)
\* _wrap_chunks: one line for each pass of its outer while loop
WrapChunks(chunks, lines) ==
    IF chunks = <<>> THEN lines
    ELSE LET indent == IF lines # <<>> THEN subsequent_indent ELSE initial_indent
             w == width - Len(indent)
             c0 == IF IsBlank(Head(chunks)) /\ lines # <<>> THEN Tail(chunks) ELSE chunks
             n == Fit(c0, w)
             cur == SubSeq(c0, 1, n)
             rest == SubSeq(c0, n + 1, Len(c0))
             long == rest # <<>> /\ Len(rest[1]) > w
             end == LongWordEnd(rest[1], w - Len(Concat(cur)))
             cur2 == IF long THEN Append(cur, UpTo(rest[1], end)) ELSE cur
             rest2 == IF long THEN <<From(rest[1], end)>> \o Tail(rest) ELSE rest
             cur3 == IF cur2 # <<>> /\ IsBlank(cur2[Len(cur2)])
                     THEN SubSeq(cur2, 1, Len(cur2) - 1) ELSE cur2
         IN  WrapChunks(rest2,
                        IF cur3 # <<>> THEN Append(lines, indent \o Concat(cur3))
                        ELSE lines)

\* wrapper.wrap(line)
Wrap(line) == WrapChunks(Chunks(Munge(line)), <<>>)

\* "%s = {%s}," % (key, value)
FieldLine(key, value) == key \o <<" ", "=", " ", "{">> \o value \o <<"}", ",">>

\* print_field(output, key, value): the list output with the field's lines added
print_field(out, key, value) == out \o Wrap(FieldLine(key, value))

------------------------------------------------------------------------------
(* The DOI pattern of clean_record *)

\* the . of a pattern: any character but a newline
AnyChar == "ANY"

\* the pattern matches s[i:i+len(pat)]
PatternAt(s, i, pat) ==
    /\ i + Len(pat) <= Len(s)
    /\ \A j \in 1..Len(pat) :
          IF pat[j] = AnyChar THEN s[i + j] # "\n" ELSE s[i + j] = pat[j]

\* https?://(dx.)?doi.org/ with each of its two optional parts taken or left
DoiPattern(withS, withDx) ==
    <<"h","t","t","p">> \o (IF withS THEN <<"s">> ELSE <<>>) \o <<":","/","/">>
        \o (IF withDx THEN <<"d","x",AnyChar>> ELSE <<>>)
        \o <<"d","o","i",AnyChar,"o","r","g","/">>

\* the ways the pattern can match, in the order the matcher tries them
DoiAlternatives ==
    <<DoiPattern(TRUE, TRUE), DoiPattern(TRUE, FALSE),
      DoiPattern(FALSE, TRUE), DoiPattern(FALSE, FALSE)>>

\* re.sub("^https?://(dx.)?doi.org/", "", s)
doi_sub(s) ==
    LET hits == {a \in 1..Len(DoiAlternatives) : PatternAt(s, 0, DoiAlternatives[a])}
    IN  IF hits = {} THEN s
        ELSE From(s, Len(DoiAlternatives[CHOOSE a \in hits : \A b \in hits : a <= b]))

\* re.sub("^Abstract ", "", s)
abstract_sub(s) ==
    IF MatchAt(s, 0, <<"A","b","s","t","r","a","c","t"," ">>) THEN From(s, 9) ELSE s

------------------------------------------------------------------------------
(* clean_record, statement by statement *)

\* lines 119-123: a blank ID which has swallowed the first field
recover_id(r) ==
    LET id_ == Get(r, K_ID)
    IN  IF Len(id_) > 0 /\ id_[1] = "\n" /\ Contains(id_, <<"=">>)
        THEN LET parts == SplitOn(From(id_, 1), <<"=">>)
             IN  Set(r, parts[1], From(parts[2], 1))
        ELSE r

\* lines 124-125
strip_values(r) == [i \in 1..Len(r) |-> [k |-> r[i].k, v |-> Strip(r[i].v)]]

\* lines 128-131
defaults(r) ==
    LET r1 == IF ~Has(r, K_abstract) THEN Set(r, K_abstract, <<>>) ELSE r
    IN  IF ~Has(r1, K_author)
        THEN Set(r1, K_author, << <<"A","n","o","n","y","m","o","u","s">> >>)
        ELSE r1

\* lines 132-137
rename(r) ==
    LET r1 == IF Has(r, K_link) THEN Del(Set(r, K_url, Get(r, K_link)), K_link) ELSE r
    IN  IF Has(r1, K_keyword)
        THEN Del(Set(r1, K_keywords, Get(r1, K_keyword)), K_keyword)
        ELSE r1

\* lines 139-144: kw from record["keywords"]
fix_keywords(kw0) ==
    LET kw1 == Lower(kw0)
        kw2 == IF Contains(kw1, <<",">>) /\ ~Contains(kw1, <<";">>)
               THEN Replace(kw1, <<",">>, <<";">>) ELSE kw1
    IN  IF Contains(kw2, <<";">>) /\ ~Contains(kw2, <<";", " ">>)
        THEN Replace(kw2, <<";">>, <<";", " ">>) ELSE kw2

\* lines 138-145
keywords(r) ==
    IF Has(r, K_keywords) THEN Set(r, K_keywords, fix_keywords(Get(r, K_keywords))) ELSE r

\* lines 146-151; U+2013 is the en dash
note_year_number(r) ==
    LET r1 == IF Has(r, K_note) /\ Get(r, K_note) = <<>> THEN Del(r, K_note) ELSE r
        r2 == IF ~Has(r1, K_year) THEN Set(r1, K_year, <<"X","X","X","X">>) ELSE r1
    IN  IF Has(r2, K_number)
        THEN Set(r2, K_number, Replace(Get(r2, K_number), <<"U+2013">>, <<"-","-">>))
        ELSE r2

\* line 152
authorkey(r) == strip_accents(Lower(SplitOn(Get(r, K_author)[1], <<",">>)[1]))

\* lines 153-154: the header line
header(r) ==
    <<"@">> \o Get(r, K_ENTRYTYPE) \o <<"{">> \o authorkey(r) \o Get(r, K_year)
        \o PyStr(get_first_word(r)) \o <<",">>

\* lines 155-156
collapse(r) ==
    Set(r, K_author, string_to_latex(Join(Get(r, K_author), <<" ","a","n","d"," ">>)))

\* lines 158-161
strip_doi(r) == IF Has(r, K_doi) THEN Set(r, K_doi, doi_sub(Get(r, K_doi))) ELSE r

\* lines 162-164: the fields of field_order that the record has, in that order
ordered_keys(r) == SelectSeq(field_order, LAMBDA f : Has(r, f))

\* the other fields, with abstract left out of known_fields
other_keys_abstract(r) ==
    SelectSeq(Keys(r), LAMBDA k : k \notin Range(field_order) \cup {K_ENTRYTYPE, K_ID})

\* lines 165-167: the other fields, in the record's order
other_keys(r) == SelectSeq(Keys(r), LAMBDA k : k \notin known_fields)

RECURSIVE print_fields(_, _, _)
\* print_field for each of the keys, in turn
print_fields(out, r, keys) ==
    IF keys = <<>> THEN out
    ELSE print_fields(print_field(out, Head(keys), Get(r, Head(keys))), r, Tail(keys))

\* lines 170-175
clean_abstract(r) ==
    LET a1 == Replace(Replace(Get(r, K_abstract), <<"\\","{">>, <<>>), <<"\\","}">>, <<>>)
        r1 == Set(r, K_abstract, a1)
    IN  IF Has(r1, K_url)
           /\ Contains(Get(r1, K_url), <<"s","c","i","e","n","c","e","d","i","r","e","c","t">>)
        THEN Set(r1, K_abstract, abstract_sub(a1))
        ELSE r1

\* lines 177-178
close_block(out) ==
    Append([out EXCEPT ![Len(out)] = SubSeq(out[Len(out)], 1, Len(out[Len(out)]) - 1)],
           <<"}">>)

\* lines 119-123
Recover ==
    /\ pc = "recover"
    /\ record' = recover_id(record)
    /\ pc' = "strip"
    /\ UNCHANGED <<input, output, emitted, result>>

\* lines 124-125
StripValues ==
    /\ pc = "strip"
    /\ record' = strip_values(record)
    /\ pc' = "author"
    /\ UNCHANGED <<input, output, emitted, result>>

\* line 126
ParseAuthor ==
    /\ pc = "author"
    /\ record' = czn_author(record)
    /\ pc' = "pages"
    /\ UNCHANGED <<input, output, emitted, result>>

\* line 127
FixPages ==
    /\ pc = "pages"
    /\ record' = fix_pages(record)
    /\ pc' = "defaults"
    /\ UNCHANGED <<input, output, emitted, result>>

\* lines 128-131
Defaults ==
    /\ pc = "defaults"
    /\ record' = defaults(record)
    /\ pc' = "rename"
    /\ UNCHANGED <<input, output, emitted, result>>

\* lines 132-137
Rename ==
    /\ pc = "rename"
    /\ record' = rename(record)
    /\ pc' = "keywords"
    /\ UNCHANGED <<input, output, emitted, result>>

\* lines 138-145
Keywords ==
    /\ pc = "keywords"
    /\ record' = keywords(record)
    /\ pc' = "note"
    /\ UNCHANGED <<input, output, emitted, result>>

\* lines 146-151
NoteYearNumber ==
    /\ pc = "note"
    /\ record' = note_year_number(record)
    /\ pc' = "header"
    /\ UNCHANGED <<input, output, emitted, result>>

\* lines 152-154
Header ==
    /\ pc = "header"
    /\ output' = <<header(record)>>
    /\ pc' = "collapse"
    /\ UNCHANGED <<input, record, emitted, result>>

\* lines 155-156
Collapse ==
    /\ pc = "collapse"
    /\ record' = collapse(record)
    /\ pc' = "title"
    /\ UNCHANGED <<input, output, emitted, result>>

\* line 157
FixTitle ==
    /\ pc = "title"
    /\ record' = fix_title(record)
    /\ pc' = "doi"
    /\ UNCHANGED <<input, output, emitted, result>>

\* lines 158-161
StripDoi ==
    /\ pc = "doi"
    /\ record' = strip_doi(record)
    /\ pc' = "ordered"
    /\ UNCHANGED <<input, output, emitted, result>>

\* lines 162-164
EmitOrdered ==
    /\ pc = "ordered"
    /\ output' = print_fields(output, record, ordered_keys(record))
    /\ emitted' = emitted \o ordered_keys(record)
    /\ pc' = "others"
    /\ UNCHANGED <<input, record, result>>

\* lines 165-167
EmitOthers ==
    /\ pc = "others"
    /\ output' = print_fields(output, record, other_keys(record))
    /\ emitted' = emitted \o other_keys(record)
    /\ pc' = "abstract"
    /\ UNCHANGED <<input, record, result>>

\* lines 169-176
EmitAbstract ==
    /\ pc = "abstract"
    /\ record' = clean_abstract(record)
    /\ output' = print_field(output, K_abstract, Get(record', K_abstract))
    /\ emitted' = Append(emitted, K_abstract)
    /\ pc' = "close"
    /\ UNCHANGED <<input, result>>

\* lines 177-179
Finish ==
    /\ pc = "close"
    /\ pc' = "done"
    /\ output' = close_block(output)
    /\ result' = Join(output', <<"\n">>) \o <<"\n", "\n">>
    /\ UNCHANGED <<input, record, emitted>>

Next ==
    \/ Recover \/ StripValues \/ ParseAuthor \/ FixPages \/ Defaults \/ Rename
    \/ Keywords \/ NoteYearNumber \/ Header \/ Collapse \/ FixTitle \/ StripDoi
    \/ EmitOrdered \/ EmitOthers \/ EmitAbstract \/ Finish

------------------------------------------------------------------------------
(* The records clean_record is given.  Each family varies the fields one    *)
(* part of the pipeline reads and keeps the rest of the record fixed.       *)

\* the longest title of the key family, in words
MaxTitleWords == 2
\* the longest pages value, in characters
MaxPagesLen == 5
\* the most keywords of a keywords value
MaxKeywords == 3
\* the longest title of the title family, in words
MaxFixWords == 3
\* the most fields besides ENTRYTYPE and ID in the order family
MaxFields == 3
\* the longest value of the wrap family, in words
MaxWrapWords == 3

\* the sequences over S of length at most n
SeqUpTo(S, n) == UNION {[1..m -> S] : m \in 0..n}

Item(k, v) == [k |-> k, v |-> v]
\* an entry of type article with the identifier id and the given fields
Entry(id, fields) ==
    <<Item(K_ENTRYTYPE, <<"a","r","t","i","c","l","e">>), Item(K_ID, id)>> \o fields
\* a field that may be absent
Optional(k, values) == {<<>>} \cup {<<Item(k, v)>> : v \in values}

InitWith(records) ==
    /\ pc = "recover"
    /\ input \in records
    /\ record = input
    /\ output = <<>>
    /\ emitted = <<>>
    /\ result = <<>>

KeyAuthors ==
    {<<>>,
     <<"S","m","i","t","h",","," ","J","o","h","n">>,
     <<"J","o","h","n"," ","S","m","i","t","h">>,
     <<"R","U+00E9",","," ","A"," ","a","n","d"," ","D","o","e",","," ","J">>,
     <<"U+00C9","o"," ","a","n","d"," ","X">>}
KeyYears == {<<"1","9","9","9">>, <<" ","2","0","0","1","\n">>}
KeyWords == {<<"T","h","e">>, <<"o","n">>, <<"3","D">>, <<"R","i","s","e">>, <<"X","-","r","a","y">>}
KeyTitles ==
    {Join(ws, <<" ">>) : ws \in SeqUpTo(KeyWords, MaxTitleWords)}
        \cup {<<"a"," "," ","N","e","w","\n","o","n","e">>}
KeyRecords ==
    {Entry(<<"X">>, a \o y \o t) :
        a \in Optional(K_author, KeyAuthors),
        y \in Optional(K_year, KeyYears),
        t \in Optional(K_title, KeyTitles)}

PagesChars == {"1", "2", "-", " ", "p"}
PagesRecords ==
    {Entry(<<"X">>, p) : p \in Optional(K_pages, SeqUpTo(PagesChars, MaxPagesLen))}

KeywordsTokens == {<<"a">>, <<"B">>}
KeywordsSeparators == {<<",">>, <<";">>, <<",", " ">>, <<";", " ">>}
\* the keywords toks with a separator after each but the last
KeywordsValue(toks, seps) ==
    Concat([i \in 1..Len(toks) |-> toks[i] \o (IF i < Len(toks) THEN seps[i] ELSE <<>>)])
KeywordsValues ==
    UNION {{KeywordsValue(toks, seps) :
               toks \in [1..m -> KeywordsTokens],
               seps \in [1..(m - 1) -> KeywordsSeparators]} : m \in 1..MaxKeywords}
KeywordsRecords ==
    {Entry(<<"X">>, <<Item(k, v)>>) : k \in {K_keywords, K_keyword}, v \in KeywordsValues}

DoiSchemes == {<<"h","t","t","p",":","/","/">>, <<"h","t","t","p","s",":","/","/">>,
               <<"f","t","p",":","/","/">>, <<>>}
DoiHosts == {<<"d","o","i",".","o","r","g","/">>, <<"d","x",".","d","o","i",".","o","r","g","/">>,
             <<"d","x","x","d","o","i",".","o","r","g","/">>, <<"d","o","i","X","o","r","g","/">>,
             <<"d","o","i",".","o","r","g">>, <<"x",".","o","r","g","/">>}
DoiTails == {<<"1","0",".","1","/","x">>, <<"1","0",".","1","0","0","0","/","x","y","z">>}
DoiRecords ==
    {Entry(<<"X">>, <<Item(K_doi, l \o s \o h \o t)>>) :
        l \in {<<>>, <<" ">>, <<"x">>}, s \in DoiSchemes, h \in DoiHosts, t \in DoiTails}

TitleWords == {<<"S","t","u","d","y">>, <<"O","F">>, <<"3","D">>, <<"r","o","c","k","s">>,
               <<"A">>, <<"a","B">>, <<"U+00C9","t","1">>, <<>>}
TitleJournals == {<<"S","c","i","e","n","c","e">>, <<"N","a","t","u","r","e">>}
TitleRecords ==
    {Entry(<<"X">>, j \o <<Item(K_title, Join(ws, <<" ">>))>>) :
        j \in Optional(K_journal, TitleJournals), ws \in SeqUpTo(TitleWords, MaxFixWords)}

\* the fields of the order family, each with its value
OrderItems ==
    {Item(K_title, <<"T">>), Item(K_pages, <<"1","-","2">>), Item(K_keywords, <<"k">>),
     Item(K_keyword, <<"j">>), Item(K_link, <<"l">>), Item(K_url, <<"u">>),
     Item(K_note, <<>>), Item(K_abstract, <<"A">>), Item(<<"z","z","z">>, <<"z">>)}
OrderRecords ==
    {Entry(<<"X">>, fs) :
        fs \in {f \in SeqUpTo(OrderItems, MaxFields) :
                  \A i, j \in 1..Len(f) : i # j => f[i].k # f[j].k}}

WrapWords == {Rep("a", 4), Rep("b", 30), Rep("c", 80),
              <<"w","e","l","l","-","k","n","o","w","n">>}
WrapRecords ==
    {Entry(<<"X">>, <<Item(K_note, Join(ws, <<" ">>))>>) :
        ws \in SeqUpTo(WrapWords, MaxWrapWords)}

IdLeads == {<<"\n">>, <<>>, <<" ", "\n">>}
IdNames == {<<"u","r","l">>, <<"n","o","t","e"," ">>}
IdEquals == {<<"=">>, <<" ","="," ">>, <<>>}
IdValues == {<<"{","a">>,
             <<"{","a","=","b">>,
             <<"{"," ","a"," ","b"," ">>,
             <<"\"","a","=","b","=","c">>,
             <<>>}
IdRecords ==
    {Entry(l \o n \o e \o v, <<>>) :
        l \in IdLeads, n \in IdNames, e \in IdEquals, v \in IdValues}

\* values with whitespace or a removable part at an end
TrimKeywords == {<<" ","a",";","b"," ">>, <<"a",";"," ","b",";">>, <<"a",",","b",",">>}
TrimDois == {<<" ","h","t","t","p","s",":","/","/","d","o","i",".","o","r","g","/","1","0",".","1","/","x"," ">>, <<"h","t","t","p","s",":","/","/","d","o","i",".","o","r","g","/"," ","1","0",".","1","/","x">>}
TrimAbstracts == {<<"\\","{"," ","x"," ","\\","}">>, <<" ","x","\n">>, <<"A","b","s","t","r","a","c","t"," "," ","x">>}
TrimUrls == {<<" ","h","t","t","p",":","/","/","s","c","i","e","n","c","e","d","i","r","e","c","t",".","c","o","m","/","a"," ">>, <<"h","t","t","p",":","/","/","x",".","o","r","g","/">>}
TrimIds == {<<"X">>, <<"\n","n","o","t","e","="," ","{","n"," ">>}
TrimRecords ==
    {Entry(id, k \o d \o a \o u) :
        id \in TrimIds,
        k \in Optional(K_keywords, TrimKeywords),
        d \in Optional(K_doi, TrimDois),
        a \in Optional(K_abstract, TrimAbstracts),
        u \in Optional(K_url, TrimUrls)}

InitKey == InitWith(KeyRecords)
InitPages == InitWith(PagesRecords)
InitKeywords == InitWith(KeywordsRecords)
InitDoi == InitWith(DoiRecords)
InitTitle == InitWith(TitleRecords)
InitOrder == InitWith(OrderRecords)
InitWrap == InitWith(WrapRecords)
InitId == InitWith(IdRecords)
InitTrim == InitWith(TrimRecords)

Init ==
    InitWith(KeyRecords \cup PagesRecords \cup KeywordsRecords \cup DoiRecords
             \cup TitleRecords \cup OrderRecords \cup WrapRecords \cup IdRecords
             \cup TrimRecords)

Spec == Init /\ [][Next]_vars
SpecKey == InitKey /\ [][Next]_vars
SpecPages == InitPages /\ [][Next]_vars
SpecKeywords == InitKeywords /\ [][Next]_vars
SpecDoi == InitDoi /\ [][Next]_vars
SpecTitle == InitTitle /\ [][Next]_vars
SpecOrder == InitOrder /\ [][Next]_vars
SpecWrap == InitWrap /\ [][Next]_vars
SpecId == InitId /\ [][Next]_vars
SpecTrim == InitTrim /\ [][Next]_vars

------------------------------------------------------------------------------
(* The citation key (claims C1 and C8) *)

\* the text before the first comma of s
BeforeFirstComma(s) ==
    LET n == CHOOSE m \in 0..Len(s) :
                 /\ \A i \in 1..m : s[i] # ","
                 /\ m = Len(s) \/ s[m + 1] = ","
    IN  SubSeq(s, 1, n)

\* a title word counts for the key: not a stop word once lowercased, no digit in front
Qualifies(w) == Lower(w) \notin stop_words /\ ~IsDigit(w[1])

\* the first whitespace-delimited word of the title that counts, lowercased, or xxx
ExpectedFirstWord(title) ==
    LET ws == SplitWS(title)
        ok == {i \in 1..Len(ws) : Qualifies(ws[i])}
    IN  IF ok = {} THEN <<"x","x","x">>
        ELSE Lower(ws[CHOOSE i \in ok : \A j \in ok : i <= j])

\* the surname of the first author, lowercased, its combining marks removed
ExpectedAuthorKey == strip_accents(Lower(BeforeFirstComma(Get(record, K_author)[1])))

\* the header line for a key
HeaderWith(key) == <<"@">> \o Get(record, K_ENTRYTYPE) \o <<"{">> \o key \o <<",">>

\* the header has been written and the author field is still the list of names
HeaderWritten == pc = "collapse"

\* C1: for a record with a title, the key of the header line is authorkey + year +
\* firstword: the surname of the first author lowercased without combining marks
\* (anonymous when the record had no author), the year field as it stands (XXXX when
\* the record had none), and the first title word, lowercased, that is no stop word and
\* starts with no digit (xxx when there is none).
C1_KeyOfTitledRecord ==
    (HeaderWritten /\ Has(record, K_title)) =>
        /\ output = <<HeaderWith(ExpectedAuthorKey \o Get(record, K_year)
                                 \o ExpectedFirstWord(Get(record, K_title)))>>
        /\ ~Has(input, K_author) => ExpectedAuthorKey = <<"a","n","o","n","y","m","o","u","s">>
        /\ ~Has(input, K_year) => Get(record, K_year) = <<"X","X","X","X">>

\* C1's case: an accented surname, a second author, a title that starts with a stop word
C1_Witness ==
    /\ HeaderWritten
    /\ Has(input, K_author) /\ Has(input, K_title)
    /\ Get(input, K_author) = <<"R","U+00E9",","," ","A"," ","a","n","d"," ","D","o","e",","," ","J">>
    /\ Get(input, K_title) = <<"T","h","e"," ","R","i","s","e">>
    /\ output = << <<"@","a","r","t","i","c","l","e","{","r","e","1","9","9","9","r","i","s","e",",">> >>

\* C8: for a record without a title, the key of the header line is authorkey + year and
\* nothing more.
C8_KeyOfUntitledRecord ==
    (HeaderWritten /\ ~Has(record, K_title)) =>
        output = <<HeaderWith(ExpectedAuthorKey \o Get(record, K_year))>>

------------------------------------------------------------------------------
(* fix_pages (claim C2) *)

\* s[i..j] is a maximal run of digits
MaximalDigitRun(s, i, j) ==
    /\ i <= j
    /\ \A h \in i..j : IsDigit(s[h])
    /\ ~IsDigit(At(s, i - 1))
    /\ ~IsDigit(At(s, j + 1))

DigitRuns(s) == {r \in (1..Len(s)) \X (1..Len(s)) : MaximalDigitRun(s, r[1], r[2])}

\* the pages value the claim gives for p0
ExpectedPages(p0) ==
    LET runs == DigitRuns(p0)
        r1 == CHOOSE r \in runs : \A q \in runs : r[1] <= q[1]
        r2 == CHOOSE r \in runs \ {r1} : \A q \in runs \ {r1} : r[1] <= q[1]
    IN  IF Cardinality(runs) >= 2
        THEN SubSeq(p0, r1[1], r1[2]) \o <<"-","-">> \o SubSeq(p0, r2[1], r2[2])
        ELSE p0

\* C2: fix_pages rewrites a pages value with two or more maximal digit runs to
\* <first run>--<second run>, leaves a value with fewer runs as it is, and leaves a
\* record without pages as it is; no other field changes.
C2_FixPages ==
    [][pc = "pages" =>
          record' = [i \in 1..Len(record) |->
                        IF record[i].k = K_pages
                        THEN Item(K_pages, ExpectedPages(record[i].v))
                        ELSE record[i]]]_vars

\* C2's case: text before the first run, a separator, and a third run left out
C2_Witness ==
    /\ pc = "defaults"
    /\ Has(input, K_pages)
    /\ Get(input, K_pages) = <<"p","1","-","2","1">>
    /\ Get(record, K_pages) = <<"1","-","-","2","1">>

------------------------------------------------------------------------------
(* The order of the fields in the block (claim C6) *)

\* the place of a key in a sequence of keys
Place(keys, k) == CHOOSE i \in 1..Len(keys) : keys[i] = k
IsPriority(k) == k \in Range(field_order)

\* C6: after the header line the block holds the present fields of the priority list
\* in the order of that list, then the remaining fields other than ENTRYTYPE, ID and
\* abstract in the record's iteration order, then abstract, which is always there; each
\* field once, and neither link nor keyword.
C6_EmissionOrder ==
    pc = "done" =>
        LET n == Len(emitted)
        IN  /\ n >= 1
            /\ emitted[n] = K_abstract
            /\ \A i, j \in 1..n : i < j => emitted[i] # emitted[j]
            /\ Range(emitted) = Range(Keys(record)) \ {K_ENTRYTYPE, K_ID}
            /\ K_link \notin Range(emitted)
            /\ K_keyword \notin Range(emitted)
            /\ \A i, j \in 1..(n - 1) :
                  i < j =>
                     /\ IsPriority(emitted[j]) => IsPriority(emitted[i])
                     /\ IsPriority(emitted[i]) /\ IsPriority(emitted[j]) =>
                            Place(field_order, emitted[i]) < Place(field_order, emitted[j])
                     /\ ~IsPriority(emitted[i]) /\ ~IsPriority(emitted[j]) =>
                            Place(Keys(record), emitted[i]) < Place(Keys(record), emitted[j])
            \* the lines of the block are the header, one line a field, and the brace
            /\ Len(output) = n + 2
            /\ \A i \in 1..n :
                  MatchAt(output[i + 1], 0,
                          initial_indent \o emitted[i] \o <<" ", "=", " ", "{">>)
            /\ output[n + 2] = <<"}">>

\* C6's case: a link, then pages before title, in the input; url follows the priority
\* fields and abstract closes the block
C6_Witness ==
    /\ pc = "done"
    /\ Keys(input) = <<K_ENTRYTYPE, K_ID, K_link, K_pages, K_title>>
    /\ emitted = <<K_author, K_title, K_year, K_pages, K_url, K_abstract>>

------------------------------------------------------------------------------
(* Keywords and trimmed values (claims C3 and C7) *)

\* the keywords (or keyword) value of the input
InputKeywords ==
    IF Has(input, K_keyword) THEN Get(input, K_keyword) ELSE Get(input, K_keywords)

\* the tokens between the commas of s, each trimmed
CommaTokens(s) ==
    LET parts == SplitOn(s, <<",">>) IN [i \in 1..Len(parts) |-> Strip(parts[i])]

\* C3: after clean_record the keywords value is lowercase, each of its semicolons is
\* followed by a space, and an input with commas and no semicolon gives its
\* comma-separated tokens joined by "; ".
C3_KeywordsSeparator ==
    (pc = "done" /\ (Has(input, K_keywords) \/ Has(input, K_keyword))) =>
        /\ Has(record, K_keywords)
        /\ LET kw == Get(record, K_keywords)
           IN  /\ \A i \in 1..Len(kw) : ~IsUpperChar(kw[i])
               /\ \A i \in 1..Len(kw) : kw[i] = ";" => At(kw, i + 1) = " "
               /\ (Contains(InputKeywords, <<",">>) /\ ~Contains(InputKeywords, <<";">>)) =>
                     kw = Join(CommaTokens(Lower(InputKeywords)), <<";", " ">>)

\* C7: after clean_record no value of the record starts or ends with whitespace.
C7_ValuesTrimmed ==
    pc = "done" =>
        \A i \in 1..Len(record) :
            LET v == record[i].v
            IN  v = <<>> \/ (~IsSpace(v[1]) /\ ~IsSpace(v[Len(v)]))

------------------------------------------------------------------------------
(* The DOI prefix (claim C4) *)

\* the four literal prefixes
DoiPrefixes ==
    {<<"h","t","t","p",":","/","/","d","o","i",".","o","r","g","/">>,
     <<"h","t","t","p","s",":","/","/","d","o","i",".","o","r","g","/">>,
     <<"h","t","t","p",":","/","/","d","x",".","d","o","i",".","o","r","g","/">>,
     <<"h","t","t","p","s",":","/","/","d","x",".","d","o","i",".","o","r","g","/">>}

\* C4: a doi value that starts with one of the four literal prefixes loses that prefix,
\* and every other doi value stays as it is.
C4_DoiPrefix ==
    [][(pc = "doi" /\ Has(record, K_doi)) =>
          LET d == Get(record, K_doi)
              hit == {p \in DoiPrefixes : MatchAt(d, 0, p)}
          IN  /\ Has(record', K_doi)
              /\ \A p \in hit : Get(record', K_doi) = From(d, Len(p))
              /\ hit = {} => Get(record', K_doi) = d]_vars

------------------------------------------------------------------------------
(* fix_title (claim C5) *)

\* a word with no alphabetic character
NoAlphabetic(w) == \A i \in 1..Len(w) : ~(IsUpperChar(w[i]) \/ IsLowerChar(w[i]))

\* what the claim makes of a word after the first
ClaimedTitleWord(w) ==
    IF IsLowerStr(w) \/ NoAlphabetic(w) THEN w
    ELSE IF Len(w) > 1 /\ IsUpperChar(w[1]) /\ IsLowerStr(Tail(w))
         THEN <<"{", w[1], "}">> \o Tail(w)
         ELSE <<"{">> \o w \o <<"}">>

\* C5: unless the journal is in capitalizers, fix_title keeps the first word of the
\* title, keeps a later word only if it is all lowercase or has no alphabetic character,
\* braces the first letter of a capitalised word, and wraps every other word whole;
\* with a journal in capitalizers the title stays as it is.
C5_FixTitle ==
    [][(pc = "title" /\ Has(record, K_title)) =>
          LET t0 == Get(record, K_title)
              ws == SplitOn(t0, <<" ">>)
          IN  /\ Has(record', K_title)
              /\ Get(record', K_title) =
                    IF Has(record, K_journal) /\ Get(record, K_journal) \in capitalizers
                    THEN t0
                    ELSE Join([i \in 1..Len(ws) |->
                                  IF i = 1 THEN ws[1] ELSE ClaimedTitleWord(ws[i])],
                              <<" ">>)]_vars

------------------------------------------------------------------------------
(* print_field (claim C9) *)

\* the field lines of the block as one text: the lines print_field was given, the comma
\* of the last one taken off
FieldText ==
    LET lines == [i \in 1..Len(emitted) |->
                     FieldLine(emitted[i], Get(record, emitted[i]))]
        text == Join(lines, <<" ">>)
    IN  SubSeq(text, 1, Len(text) - 1)

\* C9: every line of a field is at most 78 columns wide, and the lines break the text of
\* the field only at its whitespace: the words of the block are the words of the fields.
C9_WrapAtWhitespace ==
    pc = "done" =>
        /\ \A i \in 1..Len(output) : Len(output[i]) <= width
        /\ SplitWS(Join(SubSeq(output, 2, Len(output) - 1), <<"\n">>)) = SplitWS(FieldText)

------------------------------------------------------------------------------
(* The recovery of a field from the identifier (claim C10) *)

\* C10: an ID that starts with a newline and holds an = gives a field: its name the
\* text between the newline and the first =, its value all the text after that = less
\* one character, trimmed; any other ID adds no field and changes none.
C10_Recovery ==
    pc = "author" =>
        LET id_ == Get(input, K_ID)
            trimmed == [i \in 1..Len(input) |-> Item(input[i].k, Strip(input[i].v))]
        IN  IF id_ # <<>> /\ id_[1] = "\n" /\ Contains(id_, <<"=">>)
            THEN LET e == Find(id_, <<"=">>, 0)
                     name == SubSeq(id_, 2, e)
                 IN  /\ Has(record, name)
                     /\ Get(record, name) = Strip(From(id_, e + 2))
            ELSE record = trimmed

====
